---- MODULE Spec2Model ----
(***************************************************************************)
(* Saved-data replay sampling backend of quri_parts.qiskit                 *)
(* (packages/qiskit/quri_parts/qiskit/backend/job_models.py).              *)
(*                                                                         *)
(* A backend is constructed from a hardware descriptor and a JSON document *)
(* of saved jobs; sample() replays the saved jobs in order, per            *)
(* (qasm string, shots) key, advancing one cursor per key.                 *)
(***************************************************************************)
EXTENDS Integers, Sequences, FiniteSets, TLC

\* ---------------------------------------------------------------- bounds
\* longest saved-data document (number of job dicts in the JSON array)
MaxDocLen == 2
\* longest document of the export round trip (SpecExport)
MaxExportLen == 3
\* largest n_shots field of a saved job, and the max_shots a BackendV1
\* configuration reports when it reports a limit
MaxShots == 2
\* largest n_shots argument passed to sample(): three chunks under the
\* limit MaxShots; the smallest is -1
MaxReqShots == 2 * MaxShots + 1
\* widest bitstring of a raw histogram read through counts
MaxWidth == 2
\* most bitstrings in a raw histogram read through counts
MaxEntries == 2
\* largest occurrence count of a bitstring read through counts
MaxCount == 2

\* ------------------------------------------------------------ value sets
\* qasm strings of the transpiled circuits (opaque identifiers)
Circuits == {"qa", "qb"}

\* raw_data of a saved result: bitstring -> count (qiskit get_counts format);
\* a bitstring is a sequence of bits, leftmost first
OneOutcome == (<<0, 1>> :> 1)
RawData == { OneOutcome,
             (<<0, 1>> :> 1) @@ (<<1, 0>> :> 1) }

\* the job dicts a document may contain: every job of circuit "qa", and one
\* job of circuit "qb"
JobDicts == { j \in [circuit_str : Circuits,
                     n_shots : 1..MaxShots,
                     saved_result : [raw_data : RawData]] :
                \/ j.circuit_str = "qa"
                \/ j.n_shots = 1 /\ j.saved_result.raw_data = OneOutcome }

RECURSIVE SeqsUpTo(_, _)
SeqsUpTo(S, n) ==
    IF n = 0 THEN {<<>>}
    ELSE LET shorter == SeqsUpTo(S, n - 1)
         IN  shorter \cup {Append(q, x) : q \in {r \in shorter : Len(r) = n - 1}, x \in S}

\* the JSON documents given to the constructor
Documents == SeqsUpTo(JobDicts, MaxDocLen)

\* hardware descriptors: the two supported variants and an unsupported one
Backends == [kind : {"BackendV1"}, max_shots : {0, MaxShots}]
            \cup [kind : {"BackendV2", "Backend"}, max_shots : {0}]

\* qubit_mapping argument: None, or the mapping {0: 1, 1: 0}
NoneMapping == <<>>
QubitMappings == {NoneMapping, <<2, 1>>}

\* Optional[int] None for _max_shots
NoLimit == 0

\* the keys of a raw_data dict: strings of the characters "0" and "1",
\* leftmost first, of every width up to MaxWidth
Bitstrings == SeqsUpTo({0, 1}, MaxWidth) \ {<<>>}

\* raw_data: dict[str, int] as the JSON parser builds it: the items
\* <<bitstring, count>> in insertion order, no bitstring twice
OrderedHistograms ==
    { h \in SeqsUpTo(Bitstrings \X (0..MaxCount), MaxEntries) :
        \A i, j \in 1..Len(h) : h[i][1] = h[j][1] => i = j }

VARIABLES
    backend,         \* constructor argument: hardware descriptor
    json_str,        \* constructor argument: the saved-data document
    qubit_mapping,   \* constructor argument / self._qubit_mapping
    status,          \* "new" before __init__, then "ready" or "failed"
    parsed,          \* _load_data has run
    min_shots,       \* self._min_shots
    max_shots,       \* self._max_shots (NoLimit for None)
    saved_data,      \* self._saved_data: key -> list of jobs
    saved_keys,      \* iteration (insertion) order of the keys of self._saved_data
    replay_memory,   \* self._replay_memory: key -> cursor
    last,            \* the most recent sample() call and what it produced
    served,          \* history: per key, the jobs consumed so far
    exported,        \* the most recent convert_saved_jobs_sequence_to_str output
    thread,          \* per caller thread: where it stands in sample() and its locals
    times,           \* history: how often each job (key, position) was served
    overlap,         \* history: two threads have been inside sample() at once
    result,          \* a QiskitSavedDataSamplingResult: its raw_data, in dict order
    measurements     \* what the most recent read of result.counts returned

\* the variables of the callers that share one backend between threads
cvars == <<thread, times, overlap>>

\* the variables of a result object and of the reader of its counts
rvars == <<result, measurements>>

vars == <<backend, json_str, qubit_mapping, status, parsed, min_shots, max_shots,
          saved_data, saved_keys, replay_memory, last, served, exported, cvars, rvars>>

\* ------------------------------------------------------- pure functions

RECURSIVE SumCounts(_)
\* sum(raw_data.values())
SumCounts(h) ==
    IF DOMAIN h = {} THEN 0
    ELSE LET b == CHOOSE x \in DOMAIN h : TRUE
         IN  h[b] + SumCounts([y \in (DOMAIN h) \ {b} |-> h[y]])

\* a loader that puts the newest job of a key first
AppendJobFront(d, job) ==
    LET key == <<job.circuit_str, job.n_shots>>
    IN  IF key \in DOMAIN d
        THEN [d EXCEPT ![key] = <<job>> \o @]
        ELSE d @@ (key :> <<job>>)

\* defaultdict(list): saved_data[key].append(job)
AppendJob(d, job) ==
    LET key == <<job.circuit_str, job.n_shots>>
    IN  IF key \in DOMAIN d
        THEN [d EXCEPT ![key] = Append(@, job)]
        ELSE d @@ (key :> <<job>>)

RECURSIVE LoadFrom(_, _, _)
LoadFrom(seq, i, d) ==
    IF i > Len(seq) THEN d
    ELSE LoadFrom(seq, i + 1, AppendJob(d, seq[i]))

\* _load_data: group the job dicts of the document by (circuit_str, n_shots)
load_data(doc) == LoadFrom(doc, 1, <<>>)

RECURSIVE KeysFrom(_, _, _)
KeysFrom(seq, i, ks) ==
    IF i > Len(seq) THEN ks
    ELSE LET key == <<seq[i].circuit_str, seq[i].n_shots>>
         IN  KeysFrom(seq, i + 1,
                      IF \E j \in 1..Len(ks) : ks[j] = key THEN ks ELSE Append(ks, key))

\* the order in which _load_data inserts the keys into the dict
load_keys(doc) == KeysFrom(doc, 1, <<>>)

RECURSIVE Flatten(_, _, _)
Flatten(d, ks, i) ==
    IF i > Len(ks) THEN <<>>
    ELSE d[ks[i]] \o Flatten(d, ks, i + 1)

\* convert_saved_jobs_sequence_to_str applied to the jobs of the loaded
\* corpus, taken key by key in dict order: the JSON array of their dicts
convert_saved_jobs_sequence_to_str(saved_data_seq) ==
    [i \in 1..Len(saved_data_seq) |->
        [circuit_str |-> saved_data_seq[i].circuit_str,
         n_shots |-> saved_data_seq[i].n_shots,
         saved_result |-> [raw_data |-> saved_data_seq[i].saved_result.raw_data]]]

RECURSIVE Repeat(_, _)
Repeat(x, n) == IF n <= 0 THEN <<>> ELSE <<x>> \o Repeat(x, n - 1)

Max(a, b) == IF a >= b THEN a ELSE b

\* utils.shot_distributer: chunks of at most max shots, in order; roundup is
\* consulted only for a remainder below min, which _min_shots = 1 rules out
shot_distributer(n, min, max, roundup) ==
    IF max # NoLimit /\ n > max
    THEN LET remaining == n % max
         IN  Repeat(max, n \div max)
             \o (IF remaining = 0 THEN <<>>
                 ELSE IF remaining >= min THEN <<remaining>>
                 ELSE <<min>>)
    ELSE <<Max(n, min)>>

\* the exceptions sample() and __init__ raise
NoExc == [type |-> "", msg |-> ""]
NotPositive == [type |-> "ValueError", msg |-> "n_shots should be a positive integer."]
ReplayOver == [type |-> "ValueError", msg |-> "Replay of this experiment is over"]
NotSaved == [type |-> "KeyError", msg |-> "This experiment is not in the saved data."]
NotSupported == [type |-> "BackendError", msg |-> "Backend not supported."]

\* the jobs of the list ks recorded under key k
Consumed(ks, k) == SelectSeq(ks, LAMBDA j : <<j.circuit_str, j.n_shots>> = k)

RECURSIVE SampleLoopEarly(_, _, _, _, _, _)
\* a loop that gives up one job before the end of a key's list
SampleLoopEarly(data, qasm_str, shot_dist, i, mem, jobs) ==
    IF i > Len(shot_dist)
    THEN [exc |-> NoExc, mem |-> mem, jobs |-> jobs, data |-> data]
    ELSE LET key == <<qasm_str, shot_dist[i]>>
         IN  IF key \in DOMAIN data
             THEN LET data_position == mem[key]
                  IN  IF data_position + 1 < Len(data[key])
                      THEN SampleLoopEarly(data, qasm_str, shot_dist, i + 1,
                                      [mem EXCEPT ![key] = @ + 1],
                                      Append(jobs, data[key][data_position + 1]))
                      ELSE [exc |-> ReplayOver, mem |-> mem, jobs |-> jobs, data |-> data]
             ELSE [exc |-> NotSaved, mem |-> mem, jobs |-> jobs, data |-> data]

RECURSIVE SampleLoopDefaultDict(_, _, _, _, _, _)
\* a loop that indexes the defaultdict without the membership test
SampleLoopDefaultDict(data, qasm_str, shot_dist, i, mem, jobs) ==
    IF i > Len(shot_dist)
    THEN [exc |-> NoExc, mem |-> mem, jobs |-> jobs, data |-> data]
    ELSE LET key == <<qasm_str, shot_dist[i]>>
         IN  IF key \in DOMAIN data
             THEN LET data_position == mem[key]
                  IN  IF data_position < Len(data[key])
                      THEN SampleLoopDefaultDict(data, qasm_str, shot_dist, i + 1,
                                      [mem EXCEPT ![key] = @ + 1],
                                      Append(jobs, data[key][data_position + 1]))
                      ELSE [exc |-> ReplayOver, mem |-> mem, jobs |-> jobs, data |-> data]
             ELSE [exc |-> ReplayOver, mem |-> mem, jobs |-> jobs, data |-> data]

RECURSIVE SampleLoopNoAdvance(_, _, _, _, _, _)
\* a loop that never advances the cursor
SampleLoopNoAdvance(data, qasm_str, shot_dist, i, mem, jobs) ==
    IF i > Len(shot_dist)
    THEN [exc |-> NoExc, mem |-> mem, jobs |-> jobs, data |-> data]
    ELSE LET key == <<qasm_str, shot_dist[i]>>
         IN  IF key \in DOMAIN data
             THEN LET data_position == mem[key]
                  IN  IF data_position < Len(data[key])
                      THEN SampleLoopNoAdvance(data, qasm_str, shot_dist, i + 1,
                                      mem,
                                      Append(jobs, data[key][data_position + 1]))
                      ELSE [exc |-> ReplayOver, mem |-> mem, jobs |-> jobs, data |-> data]
             ELSE [exc |-> NotSaved, mem |-> mem, jobs |-> jobs, data |-> data]

RECURSIVE SampleLoopRollback(_, _, _, _, _, _)
\* a loop that restores the cursors when it raises
SampleLoopRollback(data, qasm_str, shot_dist, i, mem, jobs) ==
    IF i > Len(shot_dist)
    THEN [exc |-> NoExc, mem |-> mem, jobs |-> jobs, data |-> data]
    ELSE LET key == <<qasm_str, shot_dist[i]>>
         IN  IF key \in DOMAIN data
             THEN LET data_position == mem[key]
                  IN  IF data_position < Len(data[key])
                      THEN SampleLoopRollback(data, qasm_str, shot_dist, i + 1,
                                      [mem EXCEPT ![key] = @ + 1],
                                      Append(jobs, data[key][data_position + 1]))
                      ELSE [exc |-> ReplayOver, jobs |-> jobs, data |-> data,
                            mem |-> [k \in DOMAIN mem |-> mem[k] - Len(Consumed(jobs, k))]]
             ELSE [exc |-> NotSaved, jobs |-> jobs, data |-> data,
                   mem |-> [k \in DOMAIN mem |-> mem[k] - Len(Consumed(jobs, k))]]

RECURSIVE SampleLoopSkip(_, _, _, _, _, _)
\* a loop that passes over a chunk whose key is not saved
SampleLoopSkip(data, qasm_str, shot_dist, i, mem, jobs) ==
    IF i > Len(shot_dist)
    THEN [exc |-> NoExc, mem |-> mem, jobs |-> jobs, data |-> data]
    ELSE LET key == <<qasm_str, shot_dist[i]>>
         IN  IF key \in DOMAIN data
             THEN LET data_position == mem[key]
                  IN  IF data_position < Len(data[key])
                      THEN SampleLoopSkip(data, qasm_str, shot_dist, i + 1,
                                      [mem EXCEPT ![key] = @ + 1],
                                      Append(jobs, data[key][data_position + 1]))
                      ELSE [exc |-> ReplayOver, mem |-> mem, jobs |-> jobs, data |-> data]
             ELSE SampleLoopSkip(data, qasm_str, shot_dist, i + 1, mem, jobs)

RECURSIVE SampleLoopAdvanceFirst(_, _, _, _, _, _)
\* a loop that advances the cursor before it indexes the list
SampleLoopAdvanceFirst(data, qasm_str, shot_dist, i, mem, jobs) ==
    IF i > Len(shot_dist)
    THEN [exc |-> NoExc, mem |-> mem, jobs |-> jobs, data |-> data]
    ELSE LET key == <<qasm_str, shot_dist[i]>>
             tested == data
         IN  IF key \in DOMAIN data
             THEN LET data_position == mem[key]
                  IN  IF data_position < Len(data[key])
                      THEN SampleLoopAdvanceFirst(tested, qasm_str, shot_dist, i + 1,
                                      [mem EXCEPT ![key] = @ + 1],
                                      Append(jobs, data[key][data_position + 1]))
                      ELSE [exc |-> ReplayOver, mem |-> [mem EXCEPT ![key] = @ + 1],
                            jobs |-> jobs, data |-> tested]
             ELSE [exc |-> NotSaved, mem |-> mem, jobs |-> jobs, data |-> tested]

RECURSIVE SampleLoopPerCircuit(_, _, _, _, _, _)
\* a loop that keeps its cursors per circuit: it advances every key of the circuit
SampleLoopPerCircuit(data, qasm_str, shot_dist, i, mem, jobs) ==
    IF i > Len(shot_dist)
    THEN [exc |-> NoExc, mem |-> mem, jobs |-> jobs, data |-> data]
    ELSE LET key == <<qasm_str, shot_dist[i]>>
             tested == data
         IN  IF key \in DOMAIN data
             THEN LET data_position == mem[key]
                  IN  IF data_position < Len(data[key])
                      THEN SampleLoopPerCircuit(tested, qasm_str, shot_dist, i + 1,
                                      [k \in DOMAIN mem |-> IF k[1] = qasm_str THEN mem[k] + 1 ELSE mem[k]],
                                      Append(jobs, data[key][data_position + 1]))
                      ELSE [exc |-> ReplayOver, mem |-> mem, jobs |-> jobs,
                            data |-> tested]
             ELSE [exc |-> NotSaved, mem |-> mem, jobs |-> jobs, data |-> tested]

RECURSIVE SampleLoopPrecheck(_, _, _, _, _, _)
\* a loop that first makes sure every chunk of the call is in the saved data
SampleLoopPrecheck(data, qasm_str, shot_dist, i, mem, jobs) ==
    IF i > Len(shot_dist)
    THEN [exc |-> NoExc, mem |-> mem, jobs |-> jobs, data |-> data]
    ELSE LET key == <<qasm_str, shot_dist[i]>>
             tested == data
         IN  IF /\ key \in DOMAIN data
                /\ \A j \in i..Len(shot_dist) : <<qasm_str, shot_dist[j]>> \in DOMAIN data
             THEN LET data_position == mem[key]
                  IN  IF data_position < Len(data[key])
                      THEN SampleLoopPrecheck(tested, qasm_str, shot_dist, i + 1,
                                      [mem EXCEPT ![key] = @ + 1],
                                      Append(jobs, data[key][data_position + 1]))
                      ELSE [exc |-> ReplayOver, mem |-> mem, jobs |-> jobs,
                            data |-> tested]
             ELSE [exc |-> NotSaved, mem |-> mem, jobs |-> jobs, data |-> tested]

RECURSIVE SampleLoopRewind(_, _, _, _, _, _)
\* a loop that starts a key's list again when it reaches the end
SampleLoopRewind(data, qasm_str, shot_dist, i, mem, jobs) ==
    IF i > Len(shot_dist)
    THEN [exc |-> NoExc, mem |-> mem, jobs |-> jobs, data |-> data]
    ELSE LET key == <<qasm_str, shot_dist[i]>>
             tested == data
         IN  IF key \in DOMAIN data
             THEN LET data_position == mem[key]
                  IN  IF data_position < Len(data[key])
                      THEN SampleLoopRewind(tested, qasm_str, shot_dist, i + 1,
                                      [mem EXCEPT ![key] = @ + 1],
                                      Append(jobs, data[key][data_position + 1]))
                      ELSE [exc |-> ReplayOver, mem |-> [mem EXCEPT ![key] = 0],
                            jobs |-> jobs, data |-> tested]
             ELSE [exc |-> NotSaved, mem |-> mem, jobs |-> jobs, data |-> tested]

\* a lookup that indexes the defaultdict, which inserts an absent key
LookupInserts(data, key) ==
    IF key \in DOMAIN data THEN data ELSE data @@ (key :> <<>>)

\* what the test "key in self._saved_data" leaves of the defaultdict
LookupEffect(data, key) == data

RECURSIVE SampleLoop(_, _, _, _, _, _)
\* the for loop of sample(): chunk i of shot_dist, with the cursors mem and
\* the local list jobs; ends with the exception raised, or NoExc
SampleLoop(data, qasm_str, shot_dist, i, mem, jobs) ==
    IF i > Len(shot_dist)
    THEN [exc |-> NoExc, mem |-> mem, jobs |-> jobs, data |-> data]
    ELSE LET key == <<qasm_str, shot_dist[i]>>
             tested == LookupEffect(data, key)
         IN  IF key \in DOMAIN data
             THEN LET data_position == mem[key]
                  IN  IF data_position < Len(data[key])
                      THEN SampleLoop(tested, qasm_str, shot_dist, i + 1,
                                      [mem EXCEPT ![key] = @ + 1],
                                      Append(jobs, data[key][data_position + 1]))
                      ELSE [exc |-> ReplayOver, mem |-> mem, jobs |-> jobs,
                            data |-> tested]
             ELSE [exc |-> NotSaved, mem |-> mem, jobs |-> jobs, data |-> tested]

\* BackendQubitMapping: bit positions of an outcome mapped back
Unmap(bits, m) == IF m = NoneMapping THEN bits ELSE [i \in 1..Len(bits) |-> bits[m[i]]]

\* all bitstrings counted by some job of the list
BitsOf(jobs) == UNION {DOMAIN jobs[i].saved_result.raw_data : i \in 1..Len(jobs)}

RECURSIVE CountOf(_, _, _)
CountOf(jobs, i, b) ==
    IF i > Len(jobs) THEN 0
    ELSE (IF b \in DOMAIN jobs[i].saved_result.raw_data
          THEN jobs[i].saved_result.raw_data[b] ELSE 0)
         + CountOf(jobs, i + 1, b)

\* utils.job_processor: the counts of the jobs merged, then unmapped
job_processor(jobs, m) ==
    LET bs == BitsOf(jobs)
    IN  [c \in {Unmap(b, m) : b \in bs} |->
            CountOf(jobs, 1, CHOOSE b \in bs : Unmap(b, m) = c)]

\* ------------------------------------------------------------ the machine

AllKeys == Circuits \X (1..MaxReqShots)

\* ---- QiskitSavedDataSamplingResult.counts

RECURSIVE IntFrom(_, _, _, _)
IntFrom(digits, base, i, acc) ==
    IF i > Len(digits) THEN acc
    ELSE IntFrom(digits, base, i + 1, acc * base + digits[i])

\* a conversion that reads the rightmost character as the most significant
IntReversed(digits, base) ==
    IntFrom([i \in 1..Len(digits) |-> digits[Len(digits) + 1 - i]], base, 1, 0)

\* int(result, 2): the digits are read left to right, each one shifting
\* the value read so far by one place; Python integers do not overflow
int(digits, base) == IntFrom(digits, base, 1, 0)

\* measurements[key] = value on a dict: a new key is added, an old one
\* is overwritten
SetItem(d, key, value) ==
    [x \in (DOMAIN d) \cup {key} |-> IF x = key THEN value ELSE d[x]]

RECURSIVE CountsLoop(_, _, _)
\* for result in self.raw_data: measurements[int(result, 2)] = self.raw_data[result]
CountsLoop(raw_data, i, m) ==
    IF i > Len(raw_data) THEN m
    ELSE CountsLoop(raw_data, i + 1, SetItem(m, int(raw_data[i][1], 2), raw_data[i][2]))

\* the counts property: a fresh dict, filled from raw_data in dict order
counts(raw_data) == CountsLoop(raw_data, 1, <<>>)

\* counts has not been read
Unread == [read |-> FALSE, counts |-> <<>>]

\* no result object is under inspection
InitResult ==
    /\ result = [raw_data |-> <<>>]
    /\ measurements = Unread

\* the caller threads of the shared backend
Threads == {1, 2}

\* a thread outside sample()
Idle == [pc |-> "idle", qasm_str |-> "", shot_dist |-> <<>>, i |-> 0,
         data_position |-> 0, tmp |-> 0]

\* no thread has called, no job was served
InitThreads ==
    /\ thread = [t \in Threads |-> Idle]
    /\ times = [kp \in AllKeys \X (1..MaxDocLen) |-> 0]
    /\ overlap = FALSE

NoCall == [circuit |-> "", n_shots |-> 0, shot_dist |-> <<>>, exc |-> NoExc,
           jobs |-> <<>>, returned |-> <<>>, pre |-> <<>>]

Init ==
    /\ backend \in Backends
    /\ json_str \in Documents
    /\ qubit_mapping = NoneMapping
    /\ status = "new"
    /\ parsed = FALSE
    /\ min_shots = 0
    /\ max_shots = NoLimit
    /\ saved_data = <<>>
    /\ saved_keys = <<>>
    /\ replay_memory = <<>>
    /\ last = NoCall
    /\ served = [k \in AllKeys |-> <<>>]
    /\ exported = <<>>
    /\ InitThreads
    /\ InitResult

\* a V2 descriptor, no qubit mapping, and the longer documents of one circuit
InitExport ==
    /\ backend = [kind |-> "BackendV2", max_shots |-> 0]
    /\ json_str \in SeqsUpTo({j \in JobDicts : j.circuit_str = "qa"}, MaxExportLen)
    /\ qubit_mapping = NoneMapping
    /\ status = "new"
    /\ parsed = FALSE
    /\ min_shots = 0
    /\ max_shots = NoLimit
    /\ saved_data = <<>>
    /\ saved_keys = <<>>
    /\ replay_memory = <<>>
    /\ last = NoCall
    /\ served = [k \in AllKeys |-> <<>>]
    /\ exported = <<>>
    /\ InitThreads
    /\ InitResult

\* a V2 descriptor, with or without a qubit mapping
InitMapping ==
    /\ backend = [kind |-> "BackendV2", max_shots |-> 0]
    /\ json_str \in Documents
    /\ qubit_mapping \in QubitMappings
    /\ status = "new"
    /\ parsed = FALSE
    /\ min_shots = 0
    /\ max_shots = NoLimit
    /\ saved_data = <<>>
    /\ saved_keys = <<>>
    /\ replay_memory = <<>>
    /\ last = NoCall
    /\ served = [k \in AllKeys |-> <<>>]
    /\ exported = <<>>
    /\ InitThreads
    /\ InitResult

\* every descriptor, and a BackendV2 whose hardware has a shot limit; the
\* documents of one circuit
InitShots ==
    /\ backend \in Backends \cup {[kind |-> "BackendV2", max_shots |-> MaxShots]}
    /\ json_str \in SeqsUpTo({j \in JobDicts : j.circuit_str = "qa"}, MaxDocLen)
    /\ qubit_mapping = NoneMapping
    /\ status = "new"
    /\ parsed = FALSE
    /\ min_shots = 0
    /\ max_shots = NoLimit
    /\ saved_data = <<>>
    /\ saved_keys = <<>>
    /\ replay_memory = <<>>
    /\ last = NoCall
    /\ served = [k \in AllKeys |-> <<>>]
    /\ exported = <<>>
    /\ InitThreads
    /\ InitResult

\* no backend is constructed; a result object holds a raw histogram as it
\* was parsed, with bitstrings of one width or of several
InitCounts ==
    /\ backend = [kind |-> "BackendV2", max_shots |-> 0]
    /\ json_str = <<>>
    /\ qubit_mapping = NoneMapping
    /\ status = "new"
    /\ parsed = FALSE
    /\ min_shots = 0
    /\ max_shots = NoLimit
    /\ saved_data = <<>>
    /\ saved_keys = <<>>
    /\ replay_memory = <<>>
    /\ last = NoCall
    /\ served = [k \in AllKeys |-> <<>>]
    /\ exported = <<>>
    /\ InitThreads
    /\ result \in [raw_data : OrderedHistograms]
    /\ measurements = Unread

\* a check that accepts every Backend
IsSupportedAny(b) == b.kind \in {"BackendV1", "BackendV2", "Backend"}

\* isinstance(backend, (BackendV1, BackendV2))
IsSupported(b) == b.kind \in {"BackendV1", "BackendV2"}

\* a limit taken from any descriptor that reports one
MaxShotsOfAny(b) == IF b.max_shots > 0 THEN b.max_shots ELSE NoLimit

\* self._max_shots: the max_shots of a BackendV1 configuration, if positive
MaxShotsOf(b) ==
    IF b.kind = "BackendV1" /\ b.max_shots > 0 THEN b.max_shots ELSE NoLimit

\* a cursor for every key a caller can ask for
InitialMemoryAll(data) == [k \in Circuits \X (1..MaxReqShots) |-> 0]

\* {k: 0 for k in self._saved_data}
InitialMemory(data) == [k \in DOMAIN data |-> 0]

\* QiskitSavedDataSamplingBackend.__init__
Construct ==
    /\ status = "new"
    /\ min_shots' = 1
    /\ max_shots' = MaxShotsOf(backend)
    /\ IF ~IsSupported(backend)
       THEN /\ status' = "failed"
            /\ last' = [NoCall EXCEPT !.exc = NotSupported]
            /\ UNCHANGED <<parsed, saved_data, saved_keys, replay_memory>>
       ELSE /\ status' = "ready"
            /\ parsed' = TRUE
            /\ saved_data' = load_data(json_str)
            /\ saved_keys' = load_keys(json_str)
            /\ replay_memory' = InitialMemory(load_data(json_str))
            /\ UNCHANGED last
    /\ UNCHANGED <<backend, json_str, qubit_mapping, served, exported, cvars, rvars>>

\* a check that lets zero through
PositiveShotsOrZero(n_shots) == n_shots >= 0

\* n_shots >= 1
PositiveShots(n_shots) == n_shots >= 1

\* QiskitSavedDataSamplingBackend.sample
Sample(circuit, n_shots) ==
    /\ status = "ready"
    /\ IF ~PositiveShots(n_shots)
       THEN /\ last' = [NoCall EXCEPT !.circuit = circuit, !.n_shots = n_shots,
                                      !.exc = NotPositive, !.pre = replay_memory]
            /\ UNCHANGED <<replay_memory, served, saved_data, saved_keys>>
       ELSE LET shot_dist == shot_distributer(n_shots, min_shots, max_shots, TRUE)
                r == SampleLoop(saved_data, circuit, shot_dist, 1, replay_memory, <<>>)
            IN  /\ replay_memory' = r.mem
                /\ saved_data' = r.data
                /\ saved_keys' = IF DOMAIN r.data = DOMAIN saved_data THEN saved_keys
                                 ELSE Append(saved_keys,
                                        CHOOSE k \in DOMAIN r.data \ DOMAIN saved_data : TRUE)
                /\ served' = [k \in AllKeys |-> served[k] \o Consumed(r.jobs, k)]
                /\ last' = [circuit |-> circuit, n_shots |-> n_shots,
                            shot_dist |-> shot_dist, exc |-> r.exc, jobs |-> r.jobs,
                            returned |-> IF r.exc = NoExc
                                         THEN <<job_processor(r.jobs, qubit_mapping)>>
                                         ELSE <<>>,
                            pre |-> replay_memory]
    /\ UNCHANGED <<backend, json_str, qubit_mapping, status, parsed, min_shots,
                   max_shots, exported, cvars, rvars>>

\* a caller exports the jobs of the loaded corpus
Export ==
    /\ status = "ready"
    /\ exported' = <<convert_saved_jobs_sequence_to_str(Flatten(saved_data, saved_keys, 1))>>
    /\ UNCHANGED <<backend, json_str, qubit_mapping, status, parsed, min_shots,
                   max_shots, saved_data, saved_keys, replay_memory, last, served, cvars, rvars>>

\* a caller reads result.counts
Counts ==
    /\ measurements' = [read |-> TRUE, counts |-> counts(result.raw_data)]
    /\ UNCHANGED <<backend, json_str, qubit_mapping, status, parsed, min_shots,
                   max_shots, saved_data, saved_keys, replay_memory, last, served,
                   exported, cvars, result>>

\* ---- sample() step by step, for threads that share the backend

\* the backend's attributes that no step of sample() assigns, and the
\* single-caller bookkeeping
Fixed == <<backend, json_str, qubit_mapping, status, parsed, min_shots, max_shots,
           saved_data, saved_keys, last, exported, rvars>>

\* the key of the chunk thread t is at
KeyAt(t) == <<thread[t].qasm_str, thread[t].shot_dist[thread[t].i]>>

\* a store that writes the value loaded
AdvanceNot(tmp) == tmp

\* self._replay_memory[key] += 1: the value stored for the value loaded
Advance(tmp) == tmp + 1

\* lines 112-124: the shot check passed, the distribution is made
T_Call(t, circuit, n_shots) ==
    /\ status = "ready"
    /\ thread[t].pc = "idle"
    /\ PositiveShots(n_shots)
    /\ thread' = [thread EXCEPT ![t] =
                    [pc |-> "test", qasm_str |-> circuit,
                     shot_dist |-> shot_distributer(n_shots, min_shots, max_shots, TRUE),
                     i |-> 1, data_position |-> 0, tmp |-> 0]]
    /\ overlap' = (overlap \/ \E u \in Threads \ {t} : thread[u].pc # "idle")
    /\ UNCHANGED <<Fixed, replay_memory, served, times>>

\* lines 128-129: the membership test and the read of the cursor, or the
\* KeyError of line 136
T_Test(t) ==
    /\ thread[t].pc = "test"
    /\ IF KeyAt(t) \in DOMAIN saved_data
       THEN thread' = [thread EXCEPT ![t].pc = "index",
                                     ![t].data_position = replay_memory[KeyAt(t)]]
       ELSE thread' = [thread EXCEPT ![t] = Idle]
    /\ UNCHANGED <<Fixed, replay_memory, served, times, overlap>>

\* line 131: the job at the position read is appended, or the ValueError of
\* line 134
T_Index(t) ==
    /\ thread[t].pc = "index"
    /\ IF thread[t].data_position < Len(saved_data[KeyAt(t)])
       THEN /\ thread' = [thread EXCEPT ![t].pc = "load"]
            /\ served' = [served EXCEPT ![KeyAt(t)] =
                            Append(@, saved_data[KeyAt(t)][thread[t].data_position + 1])]
            /\ times' = [times EXCEPT ![<<KeyAt(t), thread[t].data_position + 1>>] = @ + 1]
       ELSE /\ thread' = [thread EXCEPT ![t] = Idle]
            /\ UNCHANGED <<served, times>>
    /\ UNCHANGED <<Fixed, replay_memory, overlap>>

\* line 132, first half: the cursor is loaded
T_Load(t) ==
    /\ thread[t].pc = "load"
    /\ thread' = [thread EXCEPT ![t].pc = "store", ![t].tmp = replay_memory[KeyAt(t)]]
    /\ UNCHANGED <<Fixed, replay_memory, served, times, overlap>>

\* line 132, second half: the cursor is stored; then the next chunk, or the
\* return of line 138
T_Store(t) ==
    /\ thread[t].pc = "store"
    /\ replay_memory' = [replay_memory EXCEPT ![KeyAt(t)] = Advance(thread[t].tmp)]
    /\ thread' = IF thread[t].i < Len(thread[t].shot_dist)
                 THEN [thread EXCEPT ![t].pc = "test", ![t].i = @ + 1]
                 ELSE [thread EXCEPT ![t] = Idle]
    /\ UNCHANGED <<Fixed, served, times, overlap>>

\* a BackendV1 with a shot limit, and the documents of one circuit
InitConcurrent ==
    /\ backend = [kind |-> "BackendV1", max_shots |-> MaxShots]
    /\ json_str \in SeqsUpTo({j \in JobDicts : j.circuit_str = "qa"}, MaxDocLen)
    /\ qubit_mapping = NoneMapping
    /\ status = "new"
    /\ parsed = FALSE
    /\ min_shots = 0
    /\ max_shots = NoLimit
    /\ saved_data = <<>>
    /\ saved_keys = <<>>
    /\ replay_memory = <<>>
    /\ last = NoCall
    /\ served = [k \in AllKeys |-> <<>>]
    /\ exported = <<>>
    /\ InitThreads
    /\ InitResult

NextConcurrent ==
    \/ Construct
    \/ \E t \in Threads, n \in 1..(MaxShots + 1) : T_Call(t, "qa", n)
    \/ \E t \in Threads : T_Test(t)
    \/ \E t \in Threads : T_Index(t)
    \/ \E t \in Threads : T_Load(t)
    \/ \E t \in Threads : T_Store(t)

SpecConcurrent == InitConcurrent /\ [][NextConcurrent]_vars

Next ==
    \/ Construct
    \/ \E c \in Circuits, n \in -1..MaxReqShots : Sample(c, n)

\* the backend, and a caller that exports the corpus between the calls
NextExport ==
    \/ Construct
    \/ \E n \in 0..MaxShots : Sample("qa", n)
    \/ Export

\* a result object on its own, and a caller that reads its counts
NextCounts == Counts

Spec == Init /\ [][Next]_vars

SpecExport == InitExport /\ [][NextExport]_vars

SpecMapping == InitMapping /\ [][Next]_vars

SpecShots == InitShots /\ [][Next]_vars

SpecCounts == InitCounts /\ [][NextCounts]_vars

\* ------------------------------------------------- reading the last call

\* the jobs of the document recorded under key k, in document order
DocJobs(doc, k) == SelectSeq(doc, LAMBDA j : <<j.circuit_str, j.n_shots>> = k)

\* the keys of the document
DocKeys(doc) == {<<doc[i].circuit_str, doc[i].n_shots>> : i \in 1..Len(doc)}

\* the descriptor is one of the two supported variants
IsSupportedBackendKind == backend.kind \in {"BackendV1", "BackendV2"}

\* a sample() call with a valid shot count has been made
Called == status = "ready" /\ last.circuit # "" /\ last.n_shots >= 1

\* the key of chunk i of the last call
ChunkKey(i) == <<last.circuit, last.shot_dist[i]>>

\* the number of jobs of key k consumed before the last call
Before(k) == Len(served[k]) - Len(Consumed(last.jobs, k))

\* how many of the chunks 1..i of the last call have the key of chunk i
Need(i) == Cardinality({j \in 1..i : last.shot_dist[j] = last.shot_dist[i]})

\* how many of the chunks 1..i of the last call have key k
Chunks(k, i) == Cardinality({j \in 1..i : ChunkKey(j) = k})

\* chunk i of the last call has a recorded, unconsumed job
Servable(i) ==
    /\ ChunkKey(i) \in DocKeys(json_str)
    /\ Before(ChunkKey(i)) + Need(i) <= Len(DocJobs(json_str, ChunkKey(i)))

\* the first chunk of the last call that cannot be served, 0 if there is none
FirstBad ==
    IF \A i \in 1..Len(last.shot_dist) : Servable(i) THEN 0
    ELSE CHOOSE i \in 1..Len(last.shot_dist) :
            /\ ~Servable(i)
            /\ \A j \in 1..(i - 1) : Servable(j)

\* the last call was a single chunk [n_shots]
SingleChunk == Called /\ last.shot_dist = <<last.n_shots>>

\* ---------------------------------------------------------------- claims

\* C1: for a single-chunk call on a key with N >= 1 recorded jobs, the call
\* succeeds while fewer than N jobs of the key have been consumed, and raises
\* "Replay of this experiment is over" once N have been; never earlier.
C1_ExhaustedAfterN ==
    SingleChunk /\ Len(DocJobs(json_str, ChunkKey(1))) >= 1 =>
        LET k == ChunkKey(1)
            N == Len(DocJobs(json_str, k))
        IN  /\ Before(k) <= N
            /\ Before(k) < N => /\ last.exc = NoExc
                                /\ Len(last.returned) = 1
                                /\ Len(served[k]) = Before(k) + 1
            /\ Before(k) = N => /\ last.exc = ReplayOver
                                /\ last.returned = <<>>

\* the third call on a key recorded twice has raised the replay-over error
C1_Witness ==
    /\ SingleChunk
    /\ Len(DocJobs(json_str, ChunkKey(1))) = 2
    /\ Before(ChunkKey(1)) = 2
    /\ last.exc = ReplayOver

\* C2: a lookup of a key that is not in the saved data raises KeyError
\* "This experiment is not in the saved data.", whatever was sampled before.
C2_MissingKeyError ==
    Called =>
        /\ (FirstBad # 0 /\ ChunkKey(FirstBad) \notin DocKeys(json_str))
              => last.exc = NotSaved
        /\ (SingleChunk /\ ChunkKey(1) \notin DocKeys(json_str))
              => last.exc = NotSaved /\ last.returned = <<>>

\* a missing key was sampled after a job of another key was consumed
C2_Witness ==
    /\ SingleChunk
    /\ ChunkKey(1) \notin DocKeys(json_str)
    /\ last.exc = NotSaved
    /\ \E k \in DOMAIN replay_memory : replay_memory[k] > 0

\* C3: per key, the jobs consumed so far are the first jobs of that key in
\* document order: none skipped, none served twice.
C3_FifoPerKey ==
    \A k \in AllKeys :
        /\ Len(served[k]) <= Len(DocJobs(json_str, k))
        /\ served[k] = SubSeq(DocJobs(json_str, k), 1, Len(served[k]))

\* two different jobs of one key have been consumed
C3_Witness ==
    \E k \in AllKeys :
        /\ Len(served[k]) = 2
        /\ served[k][1] # served[k][2]

\* C4: a sample() call with n_shots < 1 raises "n_shots should be a positive
\* integer." and changes neither a cursor nor the corpus, and looks nothing up.
C4_NonPositiveNoEffect ==
    [][(status = "ready" /\ last' # last /\ last'.n_shots < 1)
         => /\ last'.exc = NotPositive
            /\ last'.jobs = <<>> /\ last'.shot_dist = <<>> /\ last'.returned = <<>>
            /\ replay_memory' = replay_memory
            /\ saved_data' = saved_data
            /\ saved_keys' = saved_keys
            /\ served' = served]_vars

\* a call with n_shots < 1 was rejected after some cursor had advanced
C4_Witness ==
    /\ status = "ready"
    /\ last.circuit # ""
    /\ last.n_shots < 1
    /\ last.exc = NotPositive
    /\ \E k \in DOMAIN replay_memory : replay_memory[k] > 0

\* C5: when a call fails on chunk i, every cursor stands at its value before
\* the call plus the number of chunks 1..i-1 with its key: no roll back.
C5_NoRollback ==
    (Called /\ last.exc \in {NotSaved, ReplayOver}) =>
        /\ FirstBad # 0
        /\ \A k \in DOMAIN replay_memory :
              replay_memory[k] = last.pre[k] + Chunks(k, FirstBad - 1)

\* a two-chunk call failed with KeyError on its second chunk and left the
\* cursor of the first chunk's key one higher
C5_Witness ==
    /\ Called
    /\ Len(last.shot_dist) >= 2
    /\ last.exc = NotSaved
    /\ FirstBad = 2
    /\ replay_memory[ChunkKey(1)] = last.pre[ChunkKey(1)] + 1

\* C6: a call returns a job exactly when every chunk could be served; then one
\* job per chunk was consumed, in chunk order, and post-processed; otherwise
\* nothing is returned.
C6_AllOrNothing ==
    Called =>
        /\ Len(last.returned) = 1 <=> FirstBad = 0
        /\ Len(last.returned) = 1 =>
              /\ last.exc = NoExc
              /\ Len(last.jobs) = Len(last.shot_dist)
              /\ \A i \in 1..Len(last.shot_dist) :
                    last.jobs[i] =
                        DocJobs(json_str, ChunkKey(i))[Before(ChunkKey(i)) + Need(i)]
              /\ last.returned[1] = job_processor(last.jobs, qubit_mapping)
        /\ Len(last.returned) # 1 => last.returned = <<>> /\ last.exc # NoExc

\* a call whose distribution names one key twice returned a job
C6_Witness ==
    /\ Called
    /\ Len(last.shot_dist) >= 2
    /\ last.shot_dist[1] = last.shot_dist[2]
    /\ Len(last.returned) = 1

\* C7: without splitting and without qubit mapping, sampling a key recorded
\* once returns the recorded histogram, and its counts sum to n_shots.
C7_SingleRecordExact ==
    (/\ SingleChunk
     /\ qubit_mapping = NoneMapping
     /\ Len(DocJobs(json_str, ChunkKey(1))) = 1
     /\ Len(last.returned) = 1)
    => /\ last.returned[1] = DocJobs(json_str, ChunkKey(1))[1].saved_result.raw_data
       /\ SumCounts(last.returned[1]) = last.n_shots

\* C8: the counts of every job served sum to the shots of the chunk it
\* was looked up for.
C8_ServedSumsToShots ==
    Called =>
        \A i \in 1..Len(last.jobs) :
            SumCounts(last.jobs[i].saved_result.raw_data) = last.shot_dist[i]

\* C9: an export of the loaded corpus has the keys of the document and, per
\* key, the document's jobs in the document's order, whenever it is taken.
C9_ExportRoundTrip ==
    Len(exported) = 1 =>
        /\ DocKeys(exported[1]) = DocKeys(json_str)
        /\ \A k \in DocKeys(json_str) : DocJobs(exported[1], k) = DocJobs(json_str, k)
        /\ Len(exported[1]) = Len(json_str)

\* an export taken after a job was consumed, of a document whose keys
\* interleave, so that the export is not the document itself
C9_Witness ==
    /\ Len(exported) = 1
    /\ exported[1] # json_str
    /\ \E k \in DOMAIN replay_memory : replay_memory[k] > 0

\* C10: with a descriptor that is neither BackendV1 nor BackendV2 the
\* constructor raises "Backend not supported."; the corpus is never parsed,
\* no cursor map exists and no sample() call runs.
C10_UnsupportedBackend ==
    /\ ~IsSupportedBackendKind => /\ status # "ready"
                                  /\ ~parsed
                                  /\ saved_data = <<>> /\ replay_memory = <<>>
                                  /\ last.circuit = "" /\ last.jobs = <<>>
                                  /\ \A k \in AllKeys : served[k] = <<>>
    /\ status = "failed" => ~IsSupportedBackendKind /\ last.exc = NotSupported

\* construction has failed
C10_Witness ==
    /\ status = "failed"
    /\ backend.kind = "Backend"
    /\ json_str # <<>>

\* why the last call failed, read from its arguments and the document:
\* "" when it did not fail
Cause ==
    IF status # "ready" \/ last.circuit = "" THEN ""
    ELSE IF last.n_shots < 1 THEN "non-positive shots"
    ELSE IF FirstBad = 0 THEN ""
    ELSE IF ChunkKey(FirstBad) \in DocKeys(json_str) THEN "exhausted"
    ELSE "never recorded"

\* C11: two calls that fail for different causes raise exceptions of
\* different types.
C11_DistinctKinds ==
    [][(Cause # "" /\ Cause' # "" /\ Cause # Cause')
          => last.exc.type # last'.exc.type]_vars

\* C12: every cursor lies between 0 and the number of jobs recorded for its
\* key, and a lookup of an exhausted key raises without advancing the cursor.
C12_CursorInRange ==
    status = "ready" =>
        /\ \A k \in DOMAIN replay_memory :
              /\ 0 <= replay_memory[k]
              /\ replay_memory[k] <= Len(DocJobs(json_str, k))
        /\ (Called /\ last.exc = ReplayOver) =>
              replay_memory[ChunkKey(Len(last.jobs) + 1)]
                  = Len(DocJobs(json_str, ChunkKey(Len(last.jobs) + 1)))

\* a lookup of an exhausted key has raised, and the key's cursor stands at the
\* length of the key's list
C12_Witness ==
    /\ Called
    /\ last.exc = ReplayOver
    /\ replay_memory[ChunkKey(Len(last.jobs) + 1)] >= 1
    /\ replay_memory[ChunkKey(Len(last.jobs) + 1)]
          = Len(DocJobs(json_str, ChunkKey(Len(last.jobs) + 1)))

\* C13: no sample() call changes the corpus: its keys, their order and their
\* lists of jobs stay as loaded; of the backend's attributes a call changes
\* only the cursor map.
C13_CorpusImmutable ==
    [][status = "ready" =>
          /\ saved_data' = saved_data
          /\ saved_keys' = saved_keys
          /\ DOMAIN saved_data' = DocKeys(json_str)
          /\ \A k \in DocKeys(json_str) : saved_data'[k] = DocJobs(json_str, k)
          /\ <<backend, qubit_mapping, min_shots, max_shots, status>>'
                = <<backend, qubit_mapping, min_shots, max_shots, status>>]_vars

\* a call consumed a job and then failed on a key that is not in the corpus
C13_Witness ==
    /\ Called
    /\ last.exc = NotSaved
    /\ Len(last.jobs) >= 1
    /\ ChunkKey(Len(last.jobs) + 1) \notin DOMAIN saved_data

\* C14: the cursor map has exactly the keys of the corpus, in every state of
\* a constructed backend, and before the first call every cursor is 0.
C14_CursorKeys ==
    status = "ready" =>
        /\ DOMAIN replay_memory = DocKeys(json_str)
        /\ DOMAIN replay_memory = DOMAIN saved_data
        /\ last.circuit = "" => \A k \in DOMAIN replay_memory : replay_memory[k] = 0

\* a corpus of two keys, after a call that failed on a key outside the corpus
C14_Witness ==
    /\ Called
    /\ Cardinality(DocKeys(json_str)) = 2
    /\ last.exc = NotSaved
    /\ Cardinality(DOMAIN replay_memory) = 2

\* the jobs consumed in all, over every key
TotalServed(sv) ==
    LET RECURSIVE Sum(_)
        Sum(K) == IF K = {} THEN 0
                  ELSE LET k == CHOOSE x \in K : TRUE
                       IN  Len(sv[k]) + Sum(K \ {k})
    IN  Sum(DOMAIN sv)

\* C15: no cursor ever decreases; a cursor rises by one per job of its key
\* consumed; a call moves only cursors of keys (its circuit, a chunk of its
\* distribution).
C15_CursorMonotone ==
    [][status = "ready" =>
          \A k \in DOMAIN replay_memory :
              /\ replay_memory'[k] >= replay_memory[k]
              /\ replay_memory'[k] - replay_memory[k] = Len(served'[k]) - Len(served[k])
              /\ replay_memory'[k] # replay_memory[k] =>
                    \E i \in 1..Len(last'.shot_dist) :
                        k = <<last'.circuit, last'.shot_dist[i]>>]_vars

\* a call advanced one cursor of a two-key corpus and left the other at 0
C15_Witness ==
    /\ Called
    /\ last.exc = NoExc
    /\ \E k1, k2 \in DOMAIN replay_memory :
          /\ k1 # k2
          /\ k1[1] = k2[1]
          /\ replay_memory[k1] > 0
          /\ replay_memory[k2] = 0

\* C16: a call fails at its first chunk that cannot be served, with the error
\* of that chunk: replay over if its key is recorded, not in the saved data
\* otherwise; no later chunk is looked up or advances a cursor.
C16_FirstFailure ==
    (Called /\ FirstBad # 0) =>
        /\ last.exc = IF ChunkKey(FirstBad) \in DocKeys(json_str)
                      THEN ReplayOver ELSE NotSaved
        /\ Len(last.jobs) = FirstBad - 1
        /\ \A k \in DOMAIN replay_memory :
              Len(served[k]) = Before(k) + Chunks(k, FirstBad - 1)
        /\ \A k \in DOMAIN replay_memory : replay_memory[k] = Len(served[k])

\* a two-chunk call whose first key is exhausted and whose second key is not
\* recorded raised the replay-over error
C16_Witness ==
    /\ Called
    /\ Len(last.shot_dist) >= 2
    /\ FirstBad = 1
    /\ ChunkKey(1) \in DocKeys(json_str)
    /\ ChunkKey(2) \notin DocKeys(json_str)
    /\ last.exc = ReplayOver

\* the chunks of n shots under the limit lim (0: no limit), each at least 1
ChunksOf(n, lim) ==
    IF lim = 0 \/ n <= lim THEN <<n>>
    ELSE [i \in 1..((n + lim - 1) \div lim) |->
            IF i * lim <= n THEN lim ELSE n - (i - 1) * lim]

\* C18: the bounds given to the shot distributor are those set at
\* construction: the minimum is 1; the maximum is the descriptor's max_shots
\* for a BackendV1 that reports max_shots > 0 and none otherwise, also for
\* every BackendV2.
C18_ShotBounds ==
    status = "ready" =>
        /\ min_shots = 1
        /\ (backend.kind = "BackendV1" /\ backend.max_shots > 0)
              => max_shots = backend.max_shots
        /\ (backend.kind # "BackendV1" \/ backend.max_shots <= 0)
              => max_shots = NoLimit
        /\ Called => last.shot_dist =
              ChunksOf(last.n_shots,
                       IF backend.kind = "BackendV1" THEN backend.max_shots ELSE 0)

\* a BackendV2 whose hardware has a limit was asked for more shots than the
\* limit, and the request went out as one chunk
C18_Witness ==
    /\ Called
    /\ backend.kind = "BackendV2"
    /\ backend.max_shots > 0
    /\ last.n_shots > backend.max_shots
    /\ last.shot_dist = <<last.n_shots>>

\* a step of a call that returned a job
Success == last' # last /\ last'.exc = NoExc /\ last'.circuit # ""

\* C19: a cursor that has reached the end of its key's list stays there, and
\* no chunk of a later call is served from that key; in all at most as many
\* jobs are consumed as the document has, and from some point on no call
\* returns a job.
C19_ExhaustionPermanent ==
    /\ [][status = "ready" =>
            /\ \A k \in DOMAIN replay_memory :
                  replay_memory[k] = Len(saved_data[k])
                     => replay_memory'[k] = Len(saved_data'[k])
            /\ last' # last =>
                  \A j \in 1..Len(last'.jobs) :
                      replay_memory[<<last'.circuit, last'.shot_dist[j]>>]
                          < Len(saved_data[<<last'.circuit, last'.shot_dist[j]>>])
            /\ TotalServed(served') <= Len(json_str)]_vars
    /\ <>[][~Success]_vars

\* a call on an exhausted key has raised the replay-over error, after every
\* job of the document was consumed
C19_Witness ==
    /\ Called
    /\ last.exc = ReplayOver
    /\ Len(json_str) = MaxDocLen
    /\ TotalServed(served) = Len(json_str)

\* how many jobs of key k have been served in all
ServedCount(k) ==
    LET RECURSIVE Sum(_)
        Sum(p) == IF p = 0 THEN 0 ELSE times[<<k, p>>] + Sum(p - 1)
    IN  Sum(MaxDocLen)

\* no thread is inside sample()
Quiet == \A t \in Threads : thread[t].pc = "idle"

\* C17: as long as no two calls have been inside sample() at once, no job is
\* served twice and no cursor passes the end of its list; between calls each
\* cursor is the number of jobs served from its key.
C17_NoRaceOneAtATime ==
    (status = "ready" /\ ~overlap) =>
        /\ \A kp \in DOMAIN times : times[kp] <= 1
        /\ \A k \in DOMAIN replay_memory :
              /\ replay_memory[k] <= Len(saved_data[k])
              /\ Quiet => replay_memory[k] = ServedCount(k)

\* two interleaved calls were served the same job, and the cursor of its key
\* is one short of the jobs served or beyond the end of the key's list
C17_Witness ==
    /\ overlap
    /\ Quiet
    /\ \E k \in DOMAIN replay_memory :
          /\ \E p \in 1..MaxDocLen : times[<<k, p>>] >= 2
          /\ \/ replay_memory[k] = ServedCount(k) - 1
             \/ replay_memory[k] > Len(saved_data[k])

\* --------------------------------------------------------------- C21

\* every bitstring of the histogram has the same width
FixedWidth(raw_data) ==
    \A i, j \in 1..Len(raw_data) : Len(raw_data[i][1]) = Len(raw_data[j][1])

RECURSIVE Pow2(_)
Pow2(n) == IF n = 0 THEN 1 ELSE 2 * Pow2(n - 1)

RECURSIVE PlaceSum(_, _)
PlaceSum(bits, i) ==
    IF i > Len(bits) THEN 0
    ELSE bits[i] * Pow2(Len(bits) - i) + PlaceSum(bits, i + 1)

\* the base-2 value of a bitstring: the bit at place i from the left weighs
\* 2^(width - i)
Base2Value(bits) == PlaceSum(bits, 1)

RECURSIVE RawTotal(_, _)
\* the total of the raw counts from item i on
RawTotal(raw_data, i) ==
    IF i > Len(raw_data) THEN 0 ELSE raw_data[i][2] + RawTotal(raw_data, i + 1)

\* C21: once counts has been read from a raw histogram whose bitstrings all
\* have the same width, the counts returned have exactly the base-2 values of
\* the bitstrings as keys, each with the occurrence count of its bitstring,
\* as many keys as there are bitstrings, and the same total as the raw
\* counts; and no step changes the raw_data of the result.
C21_CountsByValue ==
    /\ [](measurements.read /\ FixedWidth(result.raw_data) =>
            LET raw == result.raw_data
                m == measurements.counts
            IN  /\ DOMAIN m = {Base2Value(raw[i][1]) : i \in 1..Len(raw)}
                /\ \A i \in 1..Len(raw) : m[Base2Value(raw[i][1])] = raw[i][2]
                /\ Cardinality(DOMAIN m) = Len(raw)
                /\ SumCounts(m) = RawTotal(raw, 1))
    /\ [][result'.raw_data = result.raw_data]_vars

\* counts was read from a histogram of two bitstrings of width two with
\* different occurrence counts, "10" first, and "10" is found under 2
C21_Witness ==
    /\ measurements.read
    /\ FixedWidth(result.raw_data)
    /\ Len(result.raw_data) = 2
    /\ result.raw_data[1][1] = <<1, 0>>
    /\ result.raw_data[1][2] # result.raw_data[2][2]
    /\ 2 \in DOMAIN measurements.counts
    /\ measurements.counts[2] = result.raw_data[1][2]

====
